---- MODULE Spec2Model ----
(***************************************************************************)
(* Model of src/Bot.py: the clan registry (ClanManager) driven by the      *)
(* slash-command handlers of ClanBot.  clan_data is the in-memory          *)
(* dictionary, disk the content of clan_data.json, outcome how the most    *)
(* recent registry call of this process ended, inflight the handler        *)
(* coroutines suspended at an await.  Python lists are sequences (duplicates and order  *)
(* kept), dictionaries are functions whose DOMAIN is the set of keys.      *)
(* A method that raises leaves the mutations made before the raise in      *)
(* clan_data and does not reach save_data.                                 *)
(***************************************************************************)
EXTENDS Integers, Sequences, FiniteSets, TLC

VARIABLES clan_data, disk, outcome, inflight

vars == <<clan_data, disk, outcome, inflight>>

\* ---- bounds --------------------------------------------------------------
\* identifiers 1..MaxId are reached through player names (0 is the falsy
\* identifier), identifiers 1..MaxUsers belong to users who issue commands.
\* Both are plain ints in the registry, which keeps one identifier space for
\* callers and targets, so the two ranges overlap.
MaxId == 2
MaxUsers == 2
\* most entries explored in the mods and coleaders lists of all clans together
MaxLen == 2
\* handler coroutines that can be in flight at once
MaxHandlers == 2

\* ---- program constants ---------------------------------------------------
\* modulus of find_player_id_by_name
IdModulus == 1000000

ClanNames == {"a", "b"}
UserIds == 1..MaxUsers
\* hash(name) of the player names commands are given: one name per
\* identifier and a name whose hash is a multiple of the modulus
NameHashes == (1..MaxId) \cup {IdModulus}
Roles == {"Mod", "Co-Leader"}

None == "None"
\* clan_data.json before the first save_data
NoFile == [exists |-> FALSE, content |-> "" ]

\* ---- Python helpers ------------------------------------------------------
Digits == <<"0", "1", "2", "3", "4", "5", "6", "7", "8", "9">>

\* str(player_id), the key of the players dictionary
str(i) == Digits[i + 1]

\* x in list
In(x, s) == \E i \in 1..Len(s) : s[i] = x

\* number of occurrences of x in list s
Count(x, s) == Cardinality({i \in 1..Len(s) : s[i] = x})

\* list.remove(x): drops the first occurrence (callers handle the absent case)
Remove(s, x) ==
  LET i == CHOOSE k \in 1..Len(s) : s[k] = x /\ \A j \in 1..(k - 1) : s[j] # x
  IN  SubSeq(s, 1, i - 1) \o SubSeq(s, i + 1, Len(s))

\* d[k] = v
DictSet(d, k, v) == [x \in (DOMAIN d) \cup {k} |-> IF x = k THEN v ELSE d[x]]

\* del d[k]
DictDel(d, k) == [x \in (DOMAIN d) \ {k} |-> d[x]]

EmptyDict == [x \in {} |-> None]

EmptyData == [clans |-> EmptyDict, players |-> EmptyDict]

\* ---- results of a registry method ---------------------------------------
\* return True, message  (every such path runs save_data first)
Ok(cd, m) == [ret |-> "ok", msg |-> m, data |-> cd, saved |-> TRUE]
\* return False, message
Fail(cd, m) == [ret |-> "fail", msg |-> m, data |-> cd, saved |-> FALSE]
\* an exception leaves the method; cd holds the mutations made so far
Raise(cd, e) == [ret |-> "raise", msg |-> e, data |-> cd, saved |-> FALSE]

\* ---- ClanManager ---------------------------------------------------------
load_data(file) == IF file.exists THEN file.content ELSE EmptyData

save_data(cd) == [exists |-> TRUE, content |-> cd]

find_player_id_by_name(h) == h % IdModulus

get_player_clan(cd, p) ==
  IF str(p) \in DOMAIN cd.players THEN cd.players[str(p)].clan ELSE None

get_player_role(cd, p) ==
  IF str(p) \in DOMAIN cd.players THEN cd.players[str(p)].role ELSE "Member"

\* the leader (an int) is compared with str(player_id): never equal
is_leader_never(cd, p, c) == FALSE

is_leader(cd, p, c) == cd.clans[c].leader = p

is_coleader(cd, p, c) == In(p, cd.clans[c].coleaders)

is_mod(cd, p, c) == In(p, cd.clans[c].mods)

\* the kick row of the action table also admits Member
has_permission_lax(cd, p, c, action) ==
  IF is_leader(cd, p, c) THEN TRUE
  ELSE LET role == get_player_role(cd, p) IN
       CASE action = "kick" -> role \in {"Leader", "Co-Leader", "Mod", "Member"}
         [] action = "invite" -> role \in {"Leader", "Co-Leader"}
         [] action = "promote_demote" -> role \in {"Leader", "Co-Leader"}
         [] OTHER -> FALSE

has_permission(cd, p, c, action) ==
  IF is_leader(cd, p, c) THEN TRUE
  ELSE LET role == get_player_role(cd, p) IN
       CASE action = "kick" -> role \in {"Leader", "Co-Leader", "Mod"}
         [] action = "invite" -> role \in {"Leader", "Co-Leader"}
         [] action = "promote_demote" -> role \in {"Leader", "Co-Leader"}
         [] OTHER -> FALSE

\* cd with field f of clan c replaced by v
SetClan(cd, c, f, v) == [cd EXCEPT !.clans[c][f] = v]

SetRole(cd, p, r) == [cd EXCEPT !.players[str(p)].role = r]

SetPlayer(cd, p, c, r) ==
  [cd EXCEPT !.players = DictSet(@, str(p), [clan |-> c, role |-> r])]

DelPlayer(cd, p) == [cd EXCEPT !.players = DictDel(@, str(p))]

\* members.remove(t); mods and coleaders lose t when present
RemoveFromClan(cd, c, t) ==
  LET cl == cd.clans[c]
      c1 == [cl EXCEPT !.members = Remove(@, t)]
      c2 == IF In(t, c1.mods) THEN [c1 EXCEPT !.mods = Remove(@, t)] ELSE c1
      c3 == IF In(t, c2.coleaders) THEN [c2 EXCEPT !.coleaders = Remove(@, t)] ELSE c2
  IN  [cd EXCEPT !.clans[c] = c3]

\* create_clan without the "Clan name already exists" check
create_clan_overwrite(cd, leader_id, clan_name) ==
  LET cd1 == [cd EXCEPT !.clans = DictSet(@, clan_name,
                   [leader |-> leader_id, members |-> <<leader_id>>,
                    mods |-> <<>>, coleaders |-> <<>>])]
  IN  Ok(SetPlayer(cd1, leader_id, clan_name, "Leader"), "created")

create_clan(cd, leader_id, clan_name) ==
  IF clan_name \in DOMAIN cd.clans THEN Fail(cd, "Clan name already exists")
  ELSE LET cd1 == [cd EXCEPT !.clans = DictSet(@, clan_name,
                        [leader |-> leader_id, members |-> <<leader_id>>,
                         mods |-> <<>>, coleaders |-> <<>>])]
       IN  Ok(SetPlayer(cd1, leader_id, clan_name, "Leader"), "created")

\* kick_member without the "Cannot kick leaders" check
kick_member_leaderless(cd, kicker_id, target_name, clan_name) ==
  LET target_id == find_player_id_by_name(target_name) IN
  IF target_id = 0 THEN Fail(cd, "Player not found")
  ELSE IF target_id = kicker_id THEN Fail(cd, "You cannot kick yourself")
  ELSE IF clan_name \notin DOMAIN cd.clans THEN Raise(cd, "KeyError")
  ELSE IF ~In(target_id, cd.clans[clan_name].members)
       THEN Fail(cd, "Player is not in your clan")
  ELSE IF ~has_permission(cd, kicker_id, clan_name, "kick")
       THEN Fail(cd, "You don't have permission to kick members")
  ELSE LET cd1 == RemoveFromClan(cd, clan_name, target_id)
           cd2 == IF str(target_id) \in DOMAIN cd1.players
                  THEN DelPlayer(cd1, target_id) ELSE cd1
       IN  Ok(cd2, "kicked")

kick_member(cd, kicker_id, target_name, clan_name) ==
  LET target_id == find_player_id_by_name(target_name) IN
  IF target_id = 0 THEN Fail(cd, "Player not found")
  ELSE IF target_id = kicker_id THEN Fail(cd, "You cannot kick yourself")
  ELSE IF clan_name \notin DOMAIN cd.clans THEN Raise(cd, "KeyError")
  ELSE IF ~In(target_id, cd.clans[clan_name].members)
       THEN Fail(cd, "Player is not in your clan")
  ELSE IF ~has_permission(cd, kicker_id, clan_name, "kick")
       THEN Fail(cd, "You don't have permission to kick members")
  ELSE IF is_leader(cd, target_id, clan_name)
       THEN Fail(cd, "You cannot kick the clan leader")
  ELSE LET cd1 == RemoveFromClan(cd, clan_name, target_id)
           cd2 == IF str(target_id) \in DOMAIN cd1.players
                  THEN DelPlayer(cd1, target_id) ELSE cd1
       IN  Ok(cd2, "kicked")

invite_member(cd, inviter_id, target_name, clan_name) ==
  LET target_id == find_player_id_by_name(target_name) IN
  IF target_id = 0 THEN Fail(cd, "Player not found")
  ELSE IF clan_name \notin DOMAIN cd.clans THEN Raise(cd, "KeyError")
  ELSE IF ~has_permission(cd, inviter_id, clan_name, "invite")
       THEN Fail(cd, "You don't have permission to invite members")
  ELSE IF str(target_id) \in DOMAIN cd.players
       THEN Fail(cd, "Player is already in a clan")
  ELSE LET cd1 == SetClan(cd, clan_name, "members",
                          Append(cd.clans[clan_name].members, target_id))
       IN  Ok(SetPlayer(cd1, target_id, clan_name, "Member"), "invited")

\* the loop over the members deletes no record
DelRecordsNone(cd, c) == cd

\* for member_id in members.copy(): delete the member's record when present
DelRecords(cd, c) ==
  [cd EXCEPT !.players =
     [k \in {x \in DOMAIN cd.players :
               \A m \in 1..Len(cd.clans[c].members) : str(cd.clans[c].members[m]) # x}
        |-> cd.players[k]]]

DelClan(cd, c) == [cd EXCEPT !.clans = DictDel(@, c)]

\* disband_clan without the is_leader check
disband_clan_anyone(cd, leader_id, clan_name) ==
  IF clan_name \notin DOMAIN cd.clans THEN Raise(cd, "KeyError")
  ELSE Ok(DelClan(DelRecords(cd, clan_name), clan_name), "disbanded")

disband_clan(cd, leader_id, clan_name) ==
  IF clan_name \notin DOMAIN cd.clans THEN Raise(cd, "KeyError")
  ELSE IF ~is_leader(cd, leader_id, clan_name)
       THEN Fail(cd, "Only the clan leader can disband the clan")
  ELSE Ok(DelClan(DelRecords(cd, clan_name), clan_name), "disbanded")

promote_member(cd, promoter_id, target_name, clan_name, role) ==
  LET target_id == find_player_id_by_name(target_name) IN
  IF target_id = 0 THEN Fail(cd, "Player not found")
  ELSE IF clan_name \notin DOMAIN cd.clans THEN Raise(cd, "KeyError")
  ELSE IF ~has_permission(cd, promoter_id, clan_name, "promote_demote")
       THEN Fail(cd, "You don't have permission to promote members")
  ELSE
  LET clan == cd.clans[clan_name]
      current_role == get_player_role(cd, target_id)
      hasRecord == str(target_id) \in DOMAIN cd.players
  IN
  IF role = "Mod" THEN
     IF current_role # "Member" THEN Fail(cd, "Player is already")
     ELSE LET cd1 == SetClan(cd, clan_name, "mods", Append(clan.mods, target_id))
          IN  IF ~hasRecord THEN Raise(cd1, "KeyError")
              ELSE Ok(SetRole(cd1, target_id, "Mod"), "promoted")
  ELSE IF role = "Co-Leader" THEN
     IF current_role = "Member" THEN
        LET cd1 == SetClan(cd, clan_name, "mods", Append(clan.mods, target_id))
            cd2 == SetClan(cd1, clan_name, "coleaders",
                           Append(clan.coleaders, target_id))
        IN  IF ~hasRecord THEN Raise(cd2, "KeyError")
            ELSE Ok(SetRole(cd2, target_id, "Co-Leader"), "promoted")
     ELSE IF current_role = "Mod" THEN
        IF ~In(target_id, clan.mods) THEN Raise(cd, "ValueError")
        ELSE LET cd1 == SetClan(cd, clan_name, "mods", Remove(clan.mods, target_id))
                 cd2 == SetClan(cd1, clan_name, "coleaders",
                                Append(clan.coleaders, target_id))
             IN  Ok(SetRole(cd2, target_id, "Co-Leader"), "promoted")
     ELSE Fail(cd, "Player is already")
  ELSE Ok(cd, "promoted")

demote_member(cd, demoter_id, target_name, clan_name) ==
  LET target_id == find_player_id_by_name(target_name) IN
  IF target_id = 0 THEN Fail(cd, "Player not found")
  ELSE IF clan_name \notin DOMAIN cd.clans THEN Raise(cd, "KeyError")
  ELSE IF ~has_permission(cd, demoter_id, clan_name, "promote_demote")
       THEN Fail(cd, "You don't have permission to demote members")
  ELSE
  LET clan == cd.clans[clan_name]
      current_role == get_player_role(cd, target_id)
  IN
  IF current_role = "Co-Leader" THEN
     IF ~In(target_id, clan.coleaders) THEN Raise(cd, "ValueError")
     ELSE LET cd1 == SetClan(cd, clan_name, "coleaders",
                             Remove(clan.coleaders, target_id))
              cd2 == SetClan(cd1, clan_name, "mods", Append(clan.mods, target_id))
          IN  Ok(SetRole(cd2, target_id, "Mod"), "demoted")
  ELSE IF current_role = "Mod" THEN
     IF ~In(target_id, clan.mods) THEN Raise(cd, "ValueError")
     ELSE LET cd1 == SetClan(cd, clan_name, "mods", Remove(clan.mods, target_id))
          IN  Ok(SetRole(cd1, target_id, "Member"), "demoted")
  ELSE Fail(cd, "Cannot demote a regular member")

force_kick(cd, target_name) ==
  LET target_id == find_player_id_by_name(target_name) IN
  IF target_id = 0 THEN Fail(cd, "Player not found")
  ELSE IF str(target_id) \notin DOMAIN cd.players
       THEN Fail(cd, "Player is not in any clan")
  ELSE LET clan_name == cd.players[str(target_id)].clan IN
  IF clan_name \notin DOMAIN cd.clans THEN Raise(cd, "KeyError")
  ELSE IF ~In(target_id, cd.clans[clan_name].members) THEN Raise(cd, "ValueError")
  ELSE Ok(DelPlayer(RemoveFromClan(cd, clan_name, target_id), target_id),
          "force kicked")

\* the part of force_join after the old clan has been left
JoinClan(cd, target_id, clan_name) ==
  LET cd1 == SetClan(cd, clan_name, "members",
                     Append(cd.clans[clan_name].members, target_id))
  IN  Ok(SetPlayer(cd1, target_id, clan_name, "Member"), "force joined")

force_join(cd, target_name, clan_name) ==
  LET target_id == find_player_id_by_name(target_name) IN
  IF target_id = 0 THEN Fail(cd, "Player not found")
  ELSE IF clan_name \notin DOMAIN cd.clans THEN Fail(cd, "Clan not found")
  ELSE IF str(target_id) \in DOMAIN cd.players THEN
     LET old_clan_name == cd.players[str(target_id)].clan IN
     IF old_clan_name \notin DOMAIN cd.clans THEN Raise(cd, "KeyError")
     ELSE IF ~In(target_id, cd.clans[old_clan_name].members)
          THEN Raise(cd, "ValueError")
     ELSE JoinClan(RemoveFromClan(cd, old_clan_name, target_id), target_id, clan_name)
  ELSE JoinClan(cd, target_id, clan_name)

delete_clan(cd, clan_name) ==
  IF clan_name \notin DOMAIN cd.clans THEN Fail(cd, "Clan not found")
  ELSE Ok(DelClan(DelRecords(cd, clan_name), clan_name), "deleted")

\* ---- ClanBot: one action per slash command ------------------------------
\* The handler's guard, the registry call and save_data run without an
\* await between them; the response is sent afterwards.
RECURSIVE RoleEntries(_, _)
RoleEntries(cd, cs) ==
  IF cs = {} THEN 0
  ELSE LET c == CHOOSE x \in cs : TRUE
       IN  Len(cd.clans[c].mods) + Len(cd.clans[c].coleaders)
             + RoleEntries(cd, cs \ {c})

WithinBounds(cd) == RoleEntries(cd, DOMAIN cd.clans) <= MaxLen

\* the command is answered without calling the registry
Refused == UNCHANGED vars

\* the registry method produced r
Called(r) ==
  /\ WithinBounds(r.data)
  /\ clan_data' = r.data
  /\ disk' = IF r.saved THEN save_data(r.data) ELSE disk
  /\ outcome' = r.ret

\* the registry method produced r and the response is sent before the next
\* command arrives
Done(r) == Called(r) /\ UNCHANGED inflight

\* create without the handler's already-in-a-clan guard
CmdCreateUnguarded(u, name) == Done(create_clan(clan_data, u, name))

CmdCreate(u, name) ==
  IF get_player_clan(clan_data, u) # None THEN Refused
  ELSE Done(create_clan(clan_data, u, name))

CmdKick(u, h) ==
  LET clan_name == get_player_clan(clan_data, u) IN
  IF clan_name = None THEN Refused
  ELSE Done(kick_member(clan_data, u, h, clan_name))

CmdInvite(u, h) ==
  LET clan_name == get_player_clan(clan_data, u) IN
  IF clan_name = None THEN Refused
  ELSE Done(invite_member(clan_data, u, h, clan_name))

CmdDisband(u) ==
  LET clan_name == get_player_clan(clan_data, u) IN
  IF clan_name = None THEN Refused
  ELSE Done(disband_clan(clan_data, u, clan_name))

CmdPromote(u, h, role) ==
  LET clan_name == get_player_clan(clan_data, u) IN
  IF clan_name = None THEN Refused
  ELSE Done(promote_member(clan_data, u, h, clan_name, role))

CmdDemote(u, h) ==
  LET clan_name == get_player_clan(clan_data, u) IN
  IF clan_name = None THEN Refused
  ELSE Done(demote_member(clan_data, u, h, clan_name))

CmdForceKick(h) ==
  LET r == force_kick(clan_data, h) IN Done(r)

CmdForceJoin(h, c) ==
  LET r == force_join(clan_data, h, c) IN Done(r)

CmdDelete(c) ==
  LET r == delete_clan(clan_data, c) IN Done(r)

\* the process is restarted: ClanManager.__init__ loads clan_data.json
Restart ==
  /\ clan_data' = load_data(disk)
  /\ outcome' = "none"
  /\ UNCHANGED <<disk, inflight>>

Slots == 1..MaxHandlers

\* no handler is running in the slot
Idle == [pc |-> "idle", cmd |-> None, user |-> 0, reply |-> None]

Init ==
  /\ disk = NoFile
  /\ clan_data = load_data(disk)
  /\ outcome = "none"
  /\ inflight = [s \in Slots |-> Idle]

Next ==
  \/ \E u \in UserIds, n \in ClanNames : CmdCreate(u, n)
  \/ \E u \in UserIds, h \in NameHashes : CmdKick(u, h)
  \/ \E u \in UserIds, h \in NameHashes : CmdInvite(u, h)
  \/ \E u \in UserIds : CmdDisband(u)
  \/ \E u \in UserIds, h \in NameHashes, r \in Roles : CmdPromote(u, h, r)
  \/ \E u \in UserIds, h \in NameHashes : CmdDemote(u, h)
  \/ \E h \in NameHashes : CmdForceKick(h)
  \/ \E h \in NameHashes, c \in ClanNames : CmdForceJoin(h, c)
  \/ \E c \in ClanNames : CmdDelete(c)
  \/ Restart

Spec == Init /\ [][Next]_vars

\* ---- handlers in flight ---------------------------------------------------
\* A handler is a coroutine: it runs from its start to its first await
\* without yielding, and returns when the awaited send_message completes.
\* Every handler's only await is the send of its reply.
Sending(cmd, u, reply) ==
  [pc |-> "sending", cmd |-> cmd, user |-> u, reply |-> reply]

\* the handler in slot s reaches await send_message without calling the
\* registry
Answer(s, cmd, u) ==
  /\ UNCHANGED <<clan_data, disk, outcome>>
  /\ inflight' = [inflight EXCEPT ![s] = Sending(cmd, u, "refused")]

\* the handler in slot s calls the registry and reaches await send_message
Call(s, cmd, u, r) ==
  /\ Called(r)
  /\ inflight' = [inflight EXCEPT ![s] = Sending(cmd, u, r.ret)]

\* create_clan handler with an await between its guard and the registry call
RunCreateSuspending(s, u, name) ==
  IF inflight[s].pc = "idle"
  THEN IF get_player_clan(clan_data, u) # None THEN Answer(s, "create", u)
       ELSE /\ UNCHANGED <<clan_data, disk, outcome>>
            /\ inflight' = [inflight EXCEPT ![s] =
                  [pc |-> "guarded", cmd |-> "create", user |-> u, reply |-> None]]
  ELSE /\ inflight[s].pc = "guarded"
       /\ inflight[s].user = u
       /\ Call(s, "create", u, create_clan(clan_data, u, name))

RunCreate(s, u, name) ==
  /\ inflight[s].pc = "idle"
  /\ IF get_player_clan(clan_data, u) # None THEN Answer(s, "create", u)
     ELSE Call(s, "create", u, create_clan(clan_data, u, name))

RunKick(s, u, h) ==
  /\ inflight[s].pc = "idle"
  /\ LET clan_name == get_player_clan(clan_data, u) IN
     IF clan_name = None THEN Answer(s, "kick", u)
     ELSE Call(s, "kick", u, kick_member(clan_data, u, h, clan_name))

RunInvite(s, u, h) ==
  /\ inflight[s].pc = "idle"
  /\ LET clan_name == get_player_clan(clan_data, u) IN
     IF clan_name = None THEN Answer(s, "invite", u)
     ELSE Call(s, "invite", u, invite_member(clan_data, u, h, clan_name))

RunDisband(s, u) ==
  /\ inflight[s].pc = "idle"
  /\ LET clan_name == get_player_clan(clan_data, u) IN
     IF clan_name = None THEN Answer(s, "disband", u)
     ELSE Call(s, "disband", u, disband_clan(clan_data, u, clan_name))

\* await interaction.response.send_message(...) completes, the handler returns
Sent(s) ==
  /\ inflight[s].pc = "sending"
  /\ inflight' = [inflight EXCEPT ![s] = Idle]
  /\ UNCHANGED <<clan_data, disk, outcome>>

NextAsync ==
  \/ \E s \in Slots, u \in UserIds, n \in ClanNames : RunCreate(s, u, n)
  \/ \E s \in Slots, u \in UserIds, h \in NameHashes : RunKick(s, u, h)
  \/ \E s \in Slots, u \in UserIds, h \in NameHashes : RunInvite(s, u, h)
  \/ \E s \in Slots, u \in UserIds : RunDisband(s, u)
  \/ \E s \in Slots : Sent(s)

SpecAsync == Init /\ [][NextAsync]_vars

\* ---- properties ----------------------------------------------------------
PlayerIds == UserIds \cup (1..MaxId)

Clans == DOMAIN clan_data.clans

Clan(c) == clan_data.clans[c]

HasRecord(p) == str(p) \in DOMAIN clan_data.players

Record(p) == clan_data.players[str(p)]

\* C1: every existing clan's leader is an element of the clan's members.
LeaderIsMember == \A c \in Clans : In(Clan(c).leader, Clan(c).members)

\* C2: in every existing clan no player id is in both mods and coleaders.
ModsColeadersDisjoint ==
  \A c \in Clans : \A p \in PlayerIds :
     ~(In(p, Clan(c).mods) /\ In(p, Clan(c).coleaders))

\* C3: in every existing clan every id in mods or coleaders is in the clan's
\* members and is not the clan's leader.
RoleHoldersAreMembers ==
  \A c \in Clans : \A p \in PlayerIds :
     (In(p, Clan(c).mods) \/ In(p, Clan(c).coleaders))
        => (In(p, Clan(c).members) /\ p # Clan(c).leader)

\* C4: with create guarded by the handler, every player id occurs at most
\* once in total across the members lists of all clans.
AtMostOneMembership ==
  \A p \in PlayerIds :
     /\ \A c \in Clans : Count(p, Clan(c).members) <= 1
     /\ \A c1, c2 \in Clans :
          (In(p, Clan(c1).members) /\ In(p, Clan(c2).members)) => c1 = c2

\* a clan's leader has been moved into the other clan's members
MovedLeader ==
  /\ outcome = "ok"
  /\ \E c1, c2 \in Clans :
       /\ c1 # c2
       /\ In(Clan(c1).leader, Clan(c2).members)
       /\ ~In(Clan(c1).leader, Clan(c1).members)

\* C5: a registry call that does not return ok=true leaves clans and players
\* exactly as they were before the call.
FailureChangesNothing ==
  [][outcome' \in {"fail", "raise"} => clan_data' = clan_data]_vars

\* C6: every registry call completes by returning (ok, message); none is left
\* by an unhandled error.
NoAbort == outcome # "raise"

\* C7: a Player Record exists for p iff p is in the members of some existing
\* clan, and the record's clan field names exactly that clan.
RecordIffMember ==
  \A p \in PlayerIds :
     /\ HasRecord(p) <=> (\E c \in Clans : In(p, Clan(c).members))
     /\ HasRecord(p) => /\ Record(p).clan \in Clans
                        /\ In(p, Clan(Record(p).clan).members)
     /\ \A c \in Clans :
          In(p, Clan(c).members) => (HasRecord(p) /\ Record(p).clan = c)

\* a clan whose leader has lost both record and membership still has a
\* member with a record
LeaderGoneMemberLeft ==
  /\ outcome = "ok"
  /\ \E c \in Clans :
       /\ ~HasRecord(Clan(c).leader)
       /\ ~In(Clan(c).leader, Clan(c).members)
       /\ \E p \in PlayerIds : In(p, Clan(c).members) /\ HasRecord(p)

\* C8: every Player Record's stored role agrees with its clan's lists:
\* Leader iff the clan's leader, Co-Leader iff in coleaders, Mod iff in mods,
\* Member iff in members and none of the other three.
StoredRoleAgrees ==
  \A p \in PlayerIds :
     (HasRecord(p) /\ Record(p).clan \in Clans) =>
        LET cl == Clan(Record(p).clan)
            r == Record(p).role
        IN  /\ (r = "Leader") <=> (cl.leader = p)
            /\ (r = "Co-Leader") <=> In(p, cl.coleaders)
            /\ (r = "Mod") <=> In(p, cl.mods)
            /\ (r = "Member") <=> (/\ In(p, cl.members)
                                   /\ cl.leader # p
                                   /\ ~In(p, cl.mods)
                                   /\ ~In(p, cl.coleaders))

\* C9: between two operations the last saved snapshot equals the in-memory
\* clans and players mappings.
SnapshotCurrent == load_data(disk) = clan_data

\* C10: kick_member aimed at the leader of clanName returns ok=false for
\* every kicker and leaves the registry, hence the leader's membership and
\* Player Record, unchanged.
LeaderKickFails ==
  \A c \in Clans : \A k \in 0..(MaxId + MaxUsers) : \A h \in NameHashes :
     find_player_id_by_name(h) = Clan(c).leader =>
        LET r == kick_member(clan_data, k, h, c)
        IN  r.ret = "fail" /\ r.data = clan_data

\* a Co-Leader or Mod of the leader's clan is refused by the leader check
LeaderKickRefused ==
  \E c \in Clans : \E k \in UserIds : \E h \in NameHashes :
     /\ find_player_id_by_name(h) = Clan(c).leader
     /\ HasRecord(k) /\ Record(k).clan = c
     /\ Record(k).role \in {"Co-Leader", "Mod"}
     /\ kick_member(clan_data, k, h, c).msg = "You cannot kick the clan leader"

\* callers a registry method can be given: every identifier of the model and
\* identifiers that never receive a record
Callers == 1..(MaxId + MaxUsers)

StoredRole(p) == IF HasRecord(p) THEN Record(p).role ELSE None

\* C11: kick_member succeeds only for the clan's leader or a caller whose
\* stored role is Leader, Co-Leader or Mod; invite, promote and demote only
\* for the clan's leader or a stored role of Leader or Co-Leader; a caller
\* who is not the clan's leader and is a Member or has no record is refused.
PermissionGating ==
  \A c \in Clans : \A k \in Callers : \A h \in NameHashes :
     LET lead == Clan(c).leader = k
         kickOk == lead \/ StoredRole(k) \in {"Leader", "Co-Leader", "Mod"}
         mgmtOk == lead \/ StoredRole(k) \in {"Leader", "Co-Leader"}
         low == ~lead /\ StoredRole(k) \in {"Member", None}
         kick == kick_member(clan_data, k, h, c)
         inv == invite_member(clan_data, k, h, c)
         dem == demote_member(clan_data, k, h, c)
     IN  /\ kick.ret = "ok" => kickOk
         /\ inv.ret = "ok" => mgmtOk
         /\ dem.ret = "ok" => mgmtOk
         /\ \A r \in Roles :
              promote_member(clan_data, k, h, c, r).ret = "ok" => mgmtOk
         /\ low => /\ kick.ret = "fail" /\ inv.ret = "fail" /\ dem.ret = "fail"
                   /\ \A r \in Roles :
                        promote_member(clan_data, k, h, c, r).ret = "fail"

\* a Member of a clan is refused kick and invite for want of permission
\* while the clan's leader may kick that Member
MemberRefusedLeaderAllowed ==
  \E c \in Clans : \E k \in UserIds : \E h, hk \in NameHashes :
     /\ HasRecord(k) /\ Record(k).clan = c /\ Record(k).role = "Member"
     /\ Clan(c).leader # k
     /\ kick_member(clan_data, k, h, c).msg
           = "You don't have permission to kick members"
     /\ invite_member(clan_data, k, h, c).msg
           = "You don't have permission to invite members"
     /\ find_player_id_by_name(hk) = k
     /\ kick_member(clan_data, Clan(c).leader, hk, c).ret = "ok"

\* C12: after a successful kick_member the target has no Player Record and
\* no occurrence of it remains in the clan's members, mods or coleaders.
KickRemovesEveryOccurrence ==
  \A k \in UserIds : \A h \in NameHashes :
     HasRecord(k) =>
        LET c == Record(k).clan
            t == find_player_id_by_name(h)
            r == kick_member(clan_data, k, h, c)
        IN  r.ret = "ok" =>
               /\ str(t) \notin DOMAIN r.data.players
               /\ ~In(t, r.data.clans[c].members)
               /\ ~In(t, r.data.clans[c].mods)
               /\ ~In(t, r.data.clans[c].coleaders)

\* C13: a Player Record with role Leader is never changed to another role;
\* it changes only by being deleted together with its clan, and an existing
\* clan's leader field never changes.
LeaderPermanence ==
  [][/\ \A p \in PlayerIds :
          (HasRecord(p) /\ Record(p).role = "Leader") =>
             IF str(p) \in DOMAIN clan_data'.players
             THEN clan_data'.players[str(p)] = Record(p)
             ELSE Record(p).clan \notin DOMAIN clan_data'.clans
     /\ \A c \in Clans :
          c \in DOMAIN clan_data'.clans =>
             clan_data'.clans[c].leader = Clan(c).leader]_vars

\* C14: with a permitted promoter, promotion to Mod succeeds iff the target's
\* stored role is Member and promotion to Co-Leader iff it is Member or Mod;
\* on success the stored role is the requested one and the same promotion
\* repeated at once returns ok=false and changes nothing.
PromoteTable ==
  \A k \in UserIds : \A h \in NameHashes : \A role \in Roles :
     LET t == find_player_id_by_name(h) IN
     (/\ HasRecord(k)
      /\ t # 0
      /\ has_permission(clan_data, k, Record(k).clan, "promote_demote")) =>
        LET c == Record(k).clan
            r == promote_member(clan_data, k, h, c, role)
            from == IF role = "Mod" THEN {"Member"} ELSE {"Member", "Mod"}
        IN  /\ r.ret = "ok" <=> StoredRole(t) \in from
            /\ r.ret = "ok" =>
                 LET again == promote_member(r.data, k, h, c, role)
                 IN  /\ r.data.players[str(t)].role = role
                     /\ again.ret = "fail"
                     /\ again.data = r.data

\* C15: disband_clan succeeds iff the caller is the clan's leader; after a
\* success the clan is gone and no Player Record names it, after a failure
\* clans and players are unchanged.
DisbandOnlyByLeader ==
  \A c \in Clans : \A k \in Callers :
     LET r == disband_clan(clan_data, k, c)
     IN  /\ r.ret = "ok" <=> Clan(c).leader = k
         /\ r.ret = "ok" =>
              /\ c \notin DOMAIN r.data.clans
              /\ \A x \in DOMAIN r.data.players : r.data.players[x].clan # c
         /\ r.ret # "ok" => (r.ret = "fail" /\ r.data = clan_data)

\* a clan with a Co-Leader: the Co-Leader's disband is refused, the leader's
\* disband removes the clan and both records
DisbandTried ==
  \E c \in Clans : \E k \in UserIds :
     /\ HasRecord(k) /\ Record(k).clan = c /\ Record(k).role = "Co-Leader"
     /\ HasRecord(Clan(c).leader) /\ Record(Clan(c).leader).clan = c
     /\ disband_clan(clan_data, k, c).msg
           = "Only the clan leader can disband the clan"
     /\ disband_clan(clan_data, Clan(c).leader, c).ret = "ok"
     /\ str(k) \notin DOMAIN disband_clan(clan_data, Clan(c).leader, c).data.players

\* C16: create_clan succeeds iff no clan of that name exists; after a success
\* the clan has leader = caller, members = [caller], empty mods and
\* coleaders, and the caller's record names the clan with role Leader; a
\* create_clan with an existing name returns ok=false and changes nothing.
CreateContract ==
  \A u \in Callers : \A n \in ClanNames :
     LET r == create_clan(clan_data, u, n)
     IN  /\ r.ret = "ok" <=> n \notin Clans
         /\ r.ret = "ok" =>
              /\ r.data.clans[n] = [leader |-> u, members |-> <<u>>,
                                    mods |-> <<>>, coleaders |-> <<>>]
              /\ get_player_clan(r.data, u) = n
              /\ get_player_role(r.data, u) = "Leader"
              /\ \A v \in Callers :
                   LET second == create_clan(r.data, v, n)
                   IN  second.ret = "fail" /\ second.data = r.data
         /\ n \in Clans => (r.ret = "fail" /\ r.data = clan_data)

\* a user without a record, one taken name with a second member and one
\* free name: the taken name is refused, the free one is created
CreateTried ==
  \E u \in UserIds : \E n1, n2 \in ClanNames :
     /\ ~HasRecord(u)
     /\ n1 \in Clans /\ n2 \notin Clans
     /\ outcome = "ok"
     /\ create_clan(clan_data, u, n1).msg = "Clan name already exists"
     /\ create_clan(clan_data, u, n2).ret = "ok"

\* stored role of p in registry cd
RoleIn(cd, p) ==
  IF str(p) \in DOMAIN cd.players THEN cd.players[str(p)].role ELSE None

\* C18: promote_member and demote_member called for a clan leave unchanged
\* the stored role of every player who is not in that clan's members.
RoleChangeStaysInClan ==
  \A k \in UserIds : \A h \in NameHashes :
     HasRecord(k) =>
        LET c == Record(k).clan
            outside == {p \in PlayerIds : ~In(p, Clan(c).members)}
        IN  /\ \A p \in outside :
                 RoleIn(demote_member(clan_data, k, h, c).data, p) = StoredRole(p)
            /\ \A role \in Roles : \A p \in outside :
                 RoleIn(promote_member(clan_data, k, h, c, role).data, p)
                    = StoredRole(p)

\* C19: for a plain Member of the promoter's clan, promotion to Mod followed
\* by a demotion, and promotion to Co-Leader followed by two demotions, each
\* restore clans and players exactly.
PromoteDemoteRoundTrip ==
  \A k \in UserIds : \A h \in NameHashes :
     LET t == find_player_id_by_name(h) IN
     (/\ HasRecord(k)
      /\ t # 0
      /\ has_permission(clan_data, k, Record(k).clan, "promote_demote")
      /\ In(t, Clan(Record(k).clan).members)
      /\ ~In(t, Clan(Record(k).clan).mods)
      /\ ~In(t, Clan(Record(k).clan).coleaders)
      /\ StoredRole(t) = "Member") =>
        LET c == Record(k).clan
            m1 == promote_member(clan_data, k, h, c, "Mod")
            m2 == demote_member(m1.data, k, h, c)
            c1 == promote_member(clan_data, k, h, c, "Co-Leader")
            c2 == demote_member(c1.data, k, h, c)
            c3 == demote_member(c2.data, k, h, c)
        IN  /\ m1.ret = "ok" /\ m2.ret = "ok" /\ m2.data = clan_data
            /\ c1.ret = "ok" /\ c2.ret = "ok" /\ c3.ret = "ok"
            /\ c3.data = clan_data

\* Leader > Co-Leader > Mod > Member, no record below all
Rank(role) ==
  CASE role = "Leader" -> 4
    [] role = "Co-Leader" -> 3
    [] role = "Mod" -> 2
    [] role = "Member" -> 1
    [] OTHER -> 0

====
